---- MODULE Spec2Model ----
(***************************************************************************)
(* Waveshare rover obstacle avoidance: the LiDAR frame reader, the frame   *)
(* decoder and the decision logic of the two scripts of the repository,    *)
(*   "Basic" : src/Wrover-Basic(Good).py   (fixed SAFETY_DISTANCE)         *)
(*   "RevC"  : src/unnamed/part_000        (REV C, dynamic safety margin)  *)
(* and the main loop that reads a frame, decodes it and sends the command. *)
(*                                                                         *)
(* Python's float arithmetic is modelled by exact rationals [num, den]     *)
(* (den > 0, lowest terms).  The serial source is a finite sequence of     *)
(* bytes; read(n) hands out the next min(n, available) bytes and b'' once  *)
(* the source has run dry (pyserial's timeout=1 read at end-of-stream).    *)
(***************************************************************************)
EXTENDS Integers, Sequences, FiniteSets

VARIABLES
    script,     \* which script runs: "Basic" or "RevC"
    input,      \* ghost: the bytes the serial source held at start
    stream,     \* bytes of the serial source not yet read
    pc,         \* position of main(): "start", "find", "rest", "check", "send";
                \* "exit" after the early return, "closed" after the finally
    packet,     \* read_packet's local: the bytes of the frame being assembled
    frames,     \* ghost: the packets read_packet has returned, in order
    emptyRead,  \* ghost: find_packet_start's read(1) has returned b''
    obstacle,   \* ghost: what the decoder's scan loop left as closest obstacle
    action,     \* main's local: the last value check_for_obstacles returned
    error,      \* the exception that escaped parse_lidar_packet, or "none"
    sent,       \* the actions whose command was written to the rover, in order
    written,    \* the command records written to the rover, in order
    queue,      \* action_queue: the actions put and not yet got, oldest first
    maxsize,    \* action_queue's maxsize; 0 is queue.Queue's "no limit"
    roverPc,    \* position of rover_control_thread: "poll", "get", "write"
    taken,      \* rover_control_thread's local: what action_queue.get() returned
    opened,     \* per port: open_serial_connection returned a connection
    closes,     \* per port: how many times main has called close() on it
    data,       \* CalCRC8's argument: the bytes its loop has not yet taken
    crc,        \* CalCRC8's local crc
    crcError    \* CalCRC8 was left by IndexError at a table lookup

threadVars == <<queue, maxsize, roverPc, taken>>
connVars == <<opened, closes>>
crcVars == <<data, crc, crcError>>

vars == <<script, input, stream, pc, packet, frames, emptyRead, obstacle,
          action, error, sent, written, threadVars, connVars, crcVars>>

Scripts == {"Basic", "RevC"}
Actions == {"FORWARD", "REVERSE", "TURN_LEFT", "TURN_RIGHT", "STOP"}

(***************************************************************************)
(* Bytes and struct.unpack_from                                            *)
(***************************************************************************)
HEADER == 84                       \* b'\x54'
FRAME_REST == 21                   \* serial_port.read(21)
SAFETY_DISTANCE == 800             \* the Basic script's threshold
INF == 65536                       \* float('inf'): above every '<H' value

Min(a, b) == IF a <= b THEN a ELSE b
Max(a, b) == IF a >= b THEN a ELSE b
Abs(a) == IF a < 0 THEN -a ELSE a

\* struct '<B' and '<H' at Python offset o of packet p (p is 1-indexed here)
U8(p, o) == p[o + 1]
U16(p, o) == p[o + 1] + 256 * p[o + 2]

\* The unpack_from calls at the head of parse_lidar_packet raise struct.error:
\* '<BBHH' at 0 (Basic), '<BBH' at 0 and '<H' at 4 (RevC) need 6 bytes; then
\* '<HHB' at len-5 >= 1 always fits.
StructError(p) == Len(p) < 6

ver_len(p) == U8(p, 1)
speed(p) == U16(p, 2)
start_angle(p) == U16(p, 4)
\* mutant of end_angle: the trailer is unpacked two bytes late, so that the
\* timestamp is taken for the end angle
end_angle_from_timestamp(p) == U16(p, Len(p) - 3)
end_angle(p) == U16(p, Len(p) - 5)
num_points(p) == ver_len(p) % 32                  \* ver_len & 0x1F
Divisor(p) == Max(num_points(p) - 1, 1)           \* max((num_points - 1), 1)

\* for i in range(num_points): offset = 6 + i*3; if offset + 3 <= len(packet) - 5
PointOffset(i) == 6 + i * 3
\* mutant of PointFits: the bound is the packet's end, not the trailer's start
PointFits_into_trailer(p, i) == PointOffset(i) + 3 <= Len(p)
PointFits(p, i) == PointOffset(i) + 3 <= Len(p) - 5
distance(p, i) == U16(p, PointOffset(i))
intensity(p, i) == U8(p, PointOffset(i) + 2)

(***************************************************************************)
(* Exact rationals standing for Python floats                              *)
(***************************************************************************)
RECURSIVE GCD(_, _)
GCD(a, b) == IF b = 0 THEN a ELSE GCD(b, a % b)

Rat(n, d) ==
    LET g == GCD(Abs(n), Abs(d))
        s == IF d < 0 THEN -1 ELSE 1
    IN  [num |-> (s * n) \div g, den |-> (s * d) \div g]
RatInt(n) == [num |-> n, den |-> 1]
RatAdd(a, b) == Rat(a.num * b.den + b.num * a.den, a.den * b.den)
\* the product of two rationals in lowest terms, reduced crosswise first so
\* that no intermediate value is larger than the result's own terms
RatMul(a, b) ==
    LET g1 == GCD(Abs(a.num), b.den)
        g2 == GCD(Abs(b.num), a.den)
    IN  IF a.num = 0 \/ b.num = 0 THEN RatInt(0)
        ELSE [num |-> (a.num \div g1) * (b.num \div g2),
              den |-> (a.den \div g2) * (b.den \div g1)]
RatInv(b) == IF b.num < 0 THEN [num |-> -b.den, den |-> -b.num]
             ELSE [num |-> b.den, den |-> b.num]             \* b.num # 0
RatDiv(a, b) == RatMul(a, RatInv(b))                          \* b.num # 0
\* comparisons by integer part first, then by fractional part
RatFloor(a) == a.num \div a.den
RatFrac(a) == a.num % a.den
RatLt(a, b) ==
    IF RatFloor(a) # RatFloor(b) THEN RatFloor(a) < RatFloor(b)
    ELSE RatFrac(a) * b.den < RatFrac(b) * a.den
RatLe(a, b) == ~RatLt(b, a)
\* Python's x % m for a float x and an int m > 0: the result is in [0, m)
RatMod(a, m) == Rat(a.num % (m * a.den), a.den)

(***************************************************************************)
(* Basic script: parse_lidar_packet with the fixed SAFETY_DISTANCE         *)
(***************************************************************************)
NoObstacle == [distance |-> INF, angle |-> RatInt(-1), intensity |-> 0, index |-> -1]

\* angle_increment = (end_angle - start_angle) / max((num_points - 1), 1)
angular_resolution(p) == Rat(end_angle(p) - start_angle(p), Divisor(p))

\* angle = (start_angle + i * angle_increment) % 360
\* adjusted_angle = (angle + 90) % 360
BasicAdjustedAngle(p, i) ==
    LET inc == angular_resolution(p)
        angle == RatMod(RatAdd(RatInt(start_angle(p)), RatMul(RatInt(i), inc)), 360)
    IN  RatMod(RatAdd(angle, RatInt(90)), 360)

\* if 0 < distance < closest_distance: closest_distance, closest_angle = ...
BasicCloser(p, i, acc) ==
    0 < distance(p, i) /\ distance(p, i) < acc.distance

\* the scan loop, from index i on; index is a ghost field (the loop's i)
RECURSIVE BasicScan(_, _, _)
BasicScan(p, i, acc) ==
    IF i >= num_points(p) THEN acc
    ELSE BasicScan(p, i + 1,
            IF PointFits(p, i) /\ BasicCloser(p, i, acc)
            THEN [distance |-> distance(p, i), angle |-> BasicAdjustedAngle(p, i),
                  intensity |-> intensity(p, i), index |-> i]
            ELSE acc)

\* mutant of QuadrantDecision: the right-hand sector's upper bound exclusive
QuadrantDecision_exclusive(a) ==
    IF RatLe(RatInt(45), a) /\ RatLt(a, RatInt(135)) THEN "TURN_RIGHT"
    ELSE IF RatLe(RatInt(225), a) /\ RatLe(a, RatInt(315)) THEN "TURN_LEFT"
    ELSE "REVERSE"

\* if 45 <= closest_angle <= 135 ... elif 225 <= closest_angle <= 315 ... else
QuadrantDecision(a) ==
    IF RatLe(RatInt(45), a) /\ RatLe(a, RatInt(135)) THEN "TURN_RIGHT"
    ELSE IF RatLe(RatInt(225), a) /\ RatLe(a, RatInt(315)) THEN "TURN_LEFT"
    ELSE "REVERSE"

\* the guard "if num_points <= 1: return STOP"
BasicDegenerate(p) == num_points(p) <= 1

\* what the scan loop leaves in closest_distance / closest_angle
BasicClosest(p) ==
    IF StructError(p) \/ BasicDegenerate(p) THEN NoObstacle
    ELSE BasicScan(p, 0, NoObstacle)

BasicDetected(p) == BasicClosest(p).distance < SAFETY_DISTANCE

parse_lidar_packet_Basic(p) ==
    IF StructError(p) THEN "STOP"
    ELSE IF BasicDegenerate(p) THEN "STOP"
    ELSE IF BasicDetected(p) THEN QuadrantDecision(BasicClosest(p).angle)
    ELSE "FORWARD"

(***************************************************************************)
(* REV C script: parse_lidar_packet with the dynamic safety margin         *)
(***************************************************************************)
BASE_SAFETY_DISTANCE == 950
INTENSITY_THRESHOLD == 20

\* resolution_factor = 36000 / angular_resolution raises ZeroDivisionError
MarginRaises(res) == res.num = 0

\* base_safety_distance + (speed / 1000) * (36000 / angular_resolution)
calculate_dynamic_safety_margin(spd, res) ==
    LET speed_factor == Rat(spd, 1000)
        resolution_factor == RatDiv(RatInt(36000), res)
    IN  RatAdd(RatInt(BASE_SAFETY_DISTANCE), RatMul(speed_factor, resolution_factor))

dynamic_safety_margin(p) ==
    calculate_dynamic_safety_margin(speed(p), angular_resolution(p))

\* angle = (start_angle + angle_increment * i) % 36000
\* adjusted_angle = (angle + 9000) % 36000
RevCAdjustedAngle(p, i) ==
    LET inc == angular_resolution(p)
        angle == RatMod(RatAdd(RatInt(start_angle(p)), RatMul(inc, RatInt(i))), 36000)
    IN  RatMod(RatAdd(angle, RatInt(9000)), 36000)

\* if 0 < distance < dynamic_safety_margin: closest_* = this point
RevCCloser(p, i, acc, margin) ==
    0 < distance(p, i) /\ RatLt(RatInt(distance(p, i)), margin)

RECURSIVE RevCScan(_, _, _, _)
RevCScan(p, i, acc, margin) ==
    IF i >= num_points(p) THEN acc
    ELSE RevCScan(p, i + 1,
            IF PointFits(p, i) /\ RevCCloser(p, i, acc, margin)
            THEN [distance |-> distance(p, i), angle |-> RevCAdjustedAngle(p, i),
                  intensity |-> intensity(p, i), index |-> i]
            ELSE acc,
            margin)

\* mutant of make_dynamic_decision: a reading at the threshold counts as confident
make_dynamic_decision_inclusive(inten, angle) ==
    IF inten >= INTENSITY_THRESHOLD
    THEN IF RatLe(RatInt(9000), angle) /\ RatLe(angle, RatInt(27000))
         THEN "TURN_LEFT" ELSE "TURN_RIGHT"
    ELSE "STOP"

\* if intensity > 20: (TURN_LEFT if 9000 <= angle <= 27000 else TURN_RIGHT) else STOP
make_dynamic_decision(inten, angle) ==
    IF inten > INTENSITY_THRESHOLD
    THEN IF RatLe(RatInt(9000), angle) /\ RatLe(angle, RatInt(27000))
         THEN "TURN_LEFT" ELSE "TURN_RIGHT"
    ELSE "STOP"

\* the decoder gets as far as the margin: no struct.error, no ZeroDivisionError
RevCHasMargin(p) == ~StructError(p) /\ ~MarginRaises(angular_resolution(p))

RevCClosest(p) ==
    IF RevCHasMargin(p) THEN RevCScan(p, 0, NoObstacle, dynamic_safety_margin(p))
    ELSE NoObstacle

\* if closest_distance < dynamic_safety_margin   (float('inf') is below no margin)
RevCDetected(p) ==
    /\ RevCHasMargin(p)
    /\ RevCClosest(p).distance # INF
    /\ RatLt(RatInt(RevCClosest(p).distance), dynamic_safety_margin(p))

\* the value returned, or the name of the exception that escapes
parse_lidar_packet_RevC(p) ==
    IF StructError(p) THEN "STOP"
    ELSE IF MarginRaises(angular_resolution(p)) THEN "ZeroDivisionError"
    ELSE IF RevCDetected(p)
         THEN make_dynamic_decision(RevCClosest(p).intensity, RevCClosest(p).angle)
    ELSE "FORWARD"

parse_lidar_packet(s, p) ==
    IF s = "Basic" THEN parse_lidar_packet_Basic(p) ELSE parse_lidar_packet_RevC(p)
Closest(s, p) == IF s = "Basic" THEN BasicClosest(p) ELSE RevCClosest(p)
Detected(s, p) == IF s = "Basic" THEN BasicDetected(p) ELSE RevCDetected(p)

(***************************************************************************)
(* The frame reader and main()'s loop                                      *)
(***************************************************************************)
\* the command records of COMMANDS.  In the Basic script the record of
\* FORWARD lacks its closing brace (line 77), which Python rejects as a
\* syntax error; its fields are taken as the line lists them.
Drive(l, r) == [T |-> 1, L |-> l, R |-> r]

COMMANDS_Basic ==
    [a \in Actions |->
        CASE a = "FORWARD"    -> Drive(100, 100)
          [] a = "REVERSE"    -> Drive(-125, -125)
          [] a = "TURN_LEFT"  -> Drive(-255, 255)
          [] a = "TURN_RIGHT" -> Drive(255, -255)
          [] a = "STOP"       -> [T |-> 0]]

COMMANDS_RevC ==
    [a \in Actions |->
        CASE a = "FORWARD"    -> Drive(150, 150)
          [] a = "REVERSE"    -> Drive(-200, -200)
          [] a = "TURN_LEFT"  -> Drive(-255, 255)
          [] a = "TURN_RIGHT" -> Drive(255, -255)
          [] a = "STOP"       -> [T |-> 0]]

\* COMMANDS[action]
COMMANDS(s, a) == IF s = "Basic" THEN COMMANDS_Basic[a] ELSE COMMANDS_RevC[a]

\* if byte == b'\x54'
IsHeader(b) == b = HEADER

\* the two serial ports main opens
Ports == {"rover", "lidar"}

\* main's finally: "if rover_conn: rover_conn.close()", the same for lidar_conn
Finally == [c \in Ports |-> IF opened[c] THEN closes[c] + 1 ELSE closes[c]]

\* main: "if not rover_conn or not lidar_conn: print(...); return", ahead of
\* the try statement; otherwise the loop is entered
main ==
    /\ pc = "start"
    /\ pc' = IF \A c \in Ports : opened[c] THEN "find" ELSE "exit"
    /\ UNCHANGED <<script, input, stream, packet, frames, emptyRead, obstacle,
                   action, error, sent, written, threadVars, connVars, crcVars>>

\* main: Ctrl-C anywhere in the loop; "except KeyboardInterrupt", then finally
KeyboardInterrupt ==
    /\ pc \in {"find", "rest", "check", "send"}
    /\ error' = "KeyboardInterrupt"
    /\ pc' = "closed"
    /\ closes' = Finally
    /\ UNCHANGED <<script, input, stream, packet, frames, emptyRead, obstacle,
                   action, sent, written, threadVars, opened, crcVars>>

\* a source that has ended may raise serial.SerialException from read() in
\* place of returning b''; main: "except Exception", then finally
SerialFault ==
    /\ pc \in {"find", "rest"}
    /\ stream = << >>
    /\ error' = "SerialException"
    /\ pc' = "closed"
    /\ closes' = Finally
    /\ UNCHANGED <<script, input, stream, packet, frames, emptyRead, obstacle,
                   action, sent, written, threadVars, opened, crcVars>>

\* serial_port.read(n): the next min(n, available) bytes, and what is left
ReadBytes(s, n) == SubSeq(s, 1, Min(n, Len(s)))
ReadLeft(s, n) == SubSeq(s, Min(n, Len(s)) + 1, Len(s))

\* mutant of read_packet: the header is not kept in the packet
read_packet_without_header(hdr, s) == ReadBytes(s, FRAME_REST)

\* mutant of read_packet: one byte too few is appended to the header
read_packet_short(hdr, s) == hdr \o ReadBytes(s, FRAME_REST - 1)

\* packet = find_packet_start(...); packet += serial_port.read(21)
read_packet(hdr, s) == hdr \o ReadBytes(s, FRAME_REST)

\* one turn of find_packet_start's "while True": read(1), compare with 0x54.
\* On b'' (source dry) the comparison fails and the loop goes round again.
find_packet_start ==
    /\ pc = "find"
    /\ IF stream = << >>
       THEN /\ emptyRead' = TRUE
            /\ UNCHANGED <<stream, pc, packet>>
       ELSE /\ stream' = Tail(stream)
            /\ IF IsHeader(Head(stream))
               THEN packet' = <<Head(stream)>> /\ pc' = "rest"
               ELSE UNCHANGED <<packet, pc>>
            /\ UNCHANGED emptyRead
    /\ UNCHANGED <<script, input, frames, obstacle, action, error, sent, written>>
    /\ UNCHANGED <<threadVars, connVars, crcVars>>

\* read_packet after the header: read(21), append, return the packet
ReadRest ==
    /\ pc = "rest"
    /\ packet' = read_packet(packet, stream)
    /\ stream' = ReadLeft(stream, FRAME_REST)
    /\ frames' = Append(frames, packet')
    /\ pc' = "check"
    /\ UNCHANGED <<script, input, emptyRead, obstacle, action, error, sent, written>>
    /\ UNCHANGED <<threadVars, connVars, crcVars>>

\* check_for_obstacles: "if packet: return parse_lidar_packet(packet)"; the
\* packet holds the header at least, so "return False" is never taken.  An
\* exception other than struct.error leaves parse_lidar_packet and
\* check_for_obstacles and ends main's loop (except Exception, finally: close).
check_for_obstacles ==
    /\ pc = "check"
    /\ LET r == parse_lidar_packet(script, packet)
       IN  IF r \in Actions
           THEN /\ action' = r
                /\ obstacle' = Closest(script, packet)
                /\ pc' = "send"
                /\ UNCHANGED error
           ELSE /\ error' = r
                /\ pc' = "closed"
                /\ UNCHANGED <<action, obstacle>>
    /\ closes' = IF pc' = "closed" THEN Finally ELSE closes
    /\ UNCHANGED <<script, input, stream, packet, frames, emptyRead, sent, written>>
    /\ UNCHANGED <<threadVars, opened, crcVars>>

\* main: "if action: send_command_to_rover(rover_conn, COMMANDS[action])",
\* then time.sleep and the next turn of the loop
SendCommand ==
    /\ pc = "send"
    /\ sent' = Append(sent, action)
    /\ written' = Append(written, COMMANDS(script, action))
    /\ pc' = "find"
    /\ UNCHANGED <<script, input, stream, packet, frames, emptyRead, obstacle,
                   action, error>>
    /\ UNCHANGED <<threadVars, connVars, crcVars>>

(***************************************************************************)
(* lidar_processing_thread and rover_control_thread on a shared            *)
(* action_queue.  The loops call put(), empty() and get() on it: the       *)
(* interface of queue.Queue, a FIFO whose put() waits while maxsize items  *)
(* are pending (maxsize 0: no limit) and whose get() waits while empty.    *)
(***************************************************************************)
\* action_queue.put(action) would wait: the queue holds maxsize items
Full(q, m) == m > 0 /\ Len(q) >= m

\* lidar_processing_thread: "action = check_for_obstacles(lidar_conn)".  An
\* exception is printed by "except Exception" and the loop goes round again.
LidarCheck ==
    /\ pc = "check"
    /\ LET r == parse_lidar_packet(script, packet)
       IN  IF r \in Actions
           THEN /\ action' = r
                /\ obstacle' = Closest(script, packet)
                /\ pc' = "put"
                /\ UNCHANGED error
           ELSE /\ error' = r
                /\ pc' = "find"
                /\ UNCHANGED <<action, obstacle>>
    /\ UNCHANGED <<script, input, stream, packet, frames, emptyRead, sent, written>>
    /\ UNCHANGED <<threadVars, connVars, crcVars>>

\* lidar_processing_thread: "if action: action_queue.put(action)"
lidar_processing_thread ==
    /\ pc = "put"
    /\ ~Full(queue, maxsize)
    /\ queue' = Append(queue, action)
    /\ pc' = "find"
    /\ UNCHANGED <<script, input, stream, packet, frames, emptyRead, obstacle,
                   action, error, sent, written, maxsize, roverPc, taken, connVars, crcVars>>

\* mutant of RoverPoll: the control loop goes to get() without looking
RoverPoll_blind ==
    /\ roverPc = "poll"
    /\ roverPc' = "get"
    /\ UNCHANGED <<script, input, stream, pc, packet, frames, emptyRead,
                   obstacle, action, error, sent, written, queue, maxsize, taken,
                   connVars, crcVars>>

\* rover_control_thread: "if not action_queue.empty():"; when the queue is
\* empty the loop goes round again (after time.sleep(0.1) in the Basic script)
RoverPoll ==
    /\ roverPc = "poll"
    /\ roverPc' = IF queue = << >> THEN "poll" ELSE "get"
    /\ UNCHANGED <<script, input, stream, pc, packet, frames, emptyRead,
                   obstacle, action, error, sent, written, queue, maxsize, taken,
                   connVars, crcVars>>

\* rover_control_thread: "action = action_queue.get()", the oldest item
RoverGet ==
    /\ roverPc = "get"
    /\ queue # << >>
    /\ taken' = Head(queue)
    /\ queue' = Tail(queue)
    /\ roverPc' = "write"
    /\ UNCHANGED <<script, input, stream, pc, packet, frames, emptyRead,
                   obstacle, action, error, sent, written, maxsize, connVars, crcVars>>

\* rover_control_thread: "send_command_to_rover(rover_conn, COMMANDS[action])"
rover_control_thread ==
    /\ roverPc = "write"
    /\ sent' = Append(sent, taken)
    /\ written' = Append(written, COMMANDS(script, taken))
    /\ roverPc' = "poll"
    /\ UNCHANGED <<script, input, stream, pc, packet, frames, emptyRead,
                   obstacle, action, error, queue, maxsize, taken,
                   connVars, crcVars>>

(***************************************************************************)
(* CalCRC8                                                                 *)
(***************************************************************************)
\* CrcTable as both scripts spell it out: twelve rows of sixteen entries
CrcTable == <<
      0,  77, 154, 215, 121,  52, 227, 174, 242, 191, 104,  37, 139, 198,  17,  92,
    169, 228,  51, 126, 208, 157,  74,   7,  91,  22, 193, 140,  34, 111, 184, 245,
     58, 119, 160, 237,  67,  14, 217, 148, 200, 133,  82,  31, 177, 252,  43, 102,
    136, 197,  18,  95, 241, 188, 107,  38, 122,  55, 224, 173,   3,  78, 153, 212,
    124,  49, 230, 171,   5,  72, 159, 210, 142, 195,  20,  89, 247, 186, 109,  32,
    213, 152,  79,   2, 172, 225,  54, 123,  39, 106, 189, 240,  94,  19, 196, 137,
     99,  46, 249, 180,  26,  87, 128, 205, 145, 220,  11,  70, 232, 165, 114,  63,
    202, 135,  80,  29, 179, 254,  41, 100,  56, 117, 162, 239,  65,  12, 219, 150,
     66,  15, 216, 149,  59, 118, 161, 236, 176, 253,  42, 103, 201, 132,  83,  30,
    235, 166, 113,  60, 146, 223,   8,  69,  25,  84, 131, 206,  96,  45, 250, 183,
     93,  16, 199, 138,  36, 105, 190, 243, 175, 226,  53, 120, 214, 155,  76,   1,
    244, 185, 110,  35, 141, 192,  23,  90,   6,  75, 156, 209, 127,  50, 229, 168 >>

\* a ^ b on non-negative integers
RECURSIVE Xor(_, _)
Xor(a, b) ==
    IF a = 0 THEN b
    ELSE IF b = 0 THEN a
    ELSE ((a + b) % 2) + 2 * Xor(a \div 2, b \div 2)

\* (crc ^ byte) & 0xFF
CrcIndex(c, byte) == Xor(c, byte) % 256

\* CrcTable[i] raises IndexError: Python's list has no item i
IndexError(i) == i + 1 \notin DOMAIN CrcTable

\* one turn of CalCRC8's "for byte in data: crc = CrcTable[(crc ^ byte) & 0xFF]"
CalCRC8 ==
    /\ data # << >>
    /\ ~crcError
    /\ LET i == CrcIndex(crc, Head(data))
       IN  IF IndexError(i)
           THEN crcError' = TRUE /\ UNCHANGED crc
           ELSE crc' = CrcTable[i + 1] /\ UNCHANGED crcError
    /\ data' = Tail(data)
    /\ UNCHANGED <<script, input, stream, pc, packet, frames, emptyRead,
                   obstacle, action, error, sent, written, threadVars, connVars>>

(***************************************************************************)
(* Inputs                                                                  *)
(***************************************************************************)
MaxJunk == 2

Lo(x) == x % 256
Hi(x) == x \div 256
Point(d, k) == <<Lo(d), Hi(d), k>>

\* a 22-byte frame in the layout parse_lidar_packet unpacks: header, ver_len,
\* speed, start_angle, three 3-byte points, two bytes of a fourth point,
\* end_angle, timestamp, crc
MkFrame(ver, spd, start, pts, end, ts, crc8) ==
    <<HEADER, ver, Lo(spd), Hi(spd), Lo(start), Hi(start)>>
    \o pts[1] \o pts[2] \o pts[3] \o <<0, 0>>
    \o <<Lo(end), Hi(end), Lo(ts), Hi(ts), crc8>>

Far == Point(2000, 30)
Near == Point(1, 30)

\* frames of the reader's streams; some hold 0x54 inside the payload
ReaderFrames ==
    { MkFrame(ver, 0, 0, pts, end, 0, 0) :
        ver \in {33, 35},
        pts \in { <<Far, Far, Far>>, <<Point(84, 84), Far, Point(500, 30)>> },
        end \in {0, 18000} }

RECURSIVE SeqsUpTo(_, _)
SeqsUpTo(S, n) ==
    IF n = 0 THEN { << >> }
    ELSE LET shorter == SeqsUpTo(S, n - 1)
         IN  shorter \cup { Append(s, b) : s \in { x \in shorter : Len(x) = n - 1 }, b \in S }

JunkBytes == {0, HEADER, 255}
Junk == SeqsUpTo(JunkBytes, MaxJunk)

\* junk, then a frame, the source running dry after k of its bytes
InitStreams ==
    { j \o SubSeq(f, 1, k) : j \in Junk, f \in ReaderFrames, k \in 0..(1 + FRAME_REST) }

\* decoder inputs: every combination of point readings around the margins
PointFrames ==
    { MkFrame(ver, spd, start, <<Point(d0, k0), Point(d1, k1), p2>>, end, 0, 0) :
        ver \in {32, 33, 34, 35, 44},
        spd \in {0, 3000},
        start \in {0, 18000},
        end \in {0, 100, 18000},
        d0 \in {0, 500, 950, 2000}, k0 \in {20, 21},
        d1 \in {0, 500, 950, 2000}, k1 \in {20, 21},
        p2 \in {Point(0, 20), Point(500, 21), Point(2000, 21)} }

\* decoder inputs: one near point, at each index, over the angle boundaries
AngleStarts ==
    {0, 45, 46, 134, 135, 180, 225, 226, 270, 314, 315, 18000, 18001, 35999}
AngleFrames ==
    { MkFrame(35, 0, start, pts, end, 0, 0) :
        start \in AngleStarts,
        end \in {7, 18000},
        pts \in { <<Near, Far, Far>>, <<Far, Near, Far>>, <<Far, Far, Near>> } }

\* decoder inputs: frames cut short by the source running dry
ShortFrames ==
    { SubSeq(f, 1, k) : f \in ReaderFrames, k \in 1..FRAME_REST }

\* decoder input: two points tied at the minimum distance, at index 0 and 2
TieFrame ==
    MkFrame(35, 0, 0, <<Point(500, 30), Point(2000, 30), Point(500, 30)>>, 18000, 0, 0)

\* decoder inputs: frames whose point count (4, 12, 31) exceeds the three
\* points a 22-byte frame holds, with the two bytes between the third point
\* and the trailer set to a distance of 1
CrowdedFrames ==
    { SubSeq(f, 1, 15) \o <<1, 0>> \o SubSeq(f, 18, 1 + FRAME_REST) :
        f \in { MkFrame(ver, 0, 0, pts, 18000, 0, 0) :
                  ver \in {36, 44, 63},
                  pts \in { <<Far, Far, Far>>, <<Far, Far, Point(500, 30)>> } } }

\* decoder inputs: frames that carry a timestamp and a crc byte
StampedFrames ==
    { MkFrame(35, 0, 0, pts, 18000, ts, c) :
        pts \in { <<Far, Far, Far>>, <<Point(500, 30), Far, Far>> },
        ts \in {1, 65535},
        c \in {192, 255} }

ParsePackets ==
    PointFrames \cup AngleFrames \cup ShortFrames \cup {TieFrame} \cup CrowdedFrames
        \cup StampedFrames

\* decoder inputs: frames under every first byte of HeaderBytes
HeaderBytes == {0, 83, HEADER, 85, 255}
HeaderPackets ==
    { <<b>> \o Tail(f) : b \in HeaderBytes, f \in AngleFrames \cup {TieFrame} }

\* the sensor source of the two threads: up to MaxFrames frames on end.  The
\* frames decode to different actions: all clear; a near point ahead; a dim
\* near point; start_angle = end_angle.
MaxFrames == 3
MaxQueue == 2
ThreadFrames ==
    { MkFrame(35, 0, 0, <<Far, Far, Far>>, 18000, 0, 0),
      MkFrame(35, 0, 0, <<Point(500, 30), Far, Far>>, 18000, 0, 0),
      MkFrame(35, 0, 180, <<Point(500, 20), Far, Far>>, 18000, 0, 0),
      MkFrame(35, 0, 0, <<Far, Far, Far>>, 0, 0, 0) }

RECURSIVE Concat(_)
Concat(fs) == IF fs = << >> THEN << >> ELSE Head(fs) \o Concat(Tail(fs))

\* CalCRC8's arguments: any first byte, then up to MaxCrcTail bytes
MaxCrcTail == 2
CrcBytes == {0, HEADER, 191, 255}
CrcInputs ==
    { <<b>> \o s : b \in 0..255, s \in SeqsUpTo(CrcBytes, MaxCrcTail) }

ThreadStreams ==
    { Concat(fs) : fs \in { x \in SeqsUpTo(ThreadFrames, MaxFrames) : x # << >> } }

\* the sensor source of main once aligned: up to MaxFrames whole frames on
\* end, some with 0x54 among their payload bytes
AlignedFrames ==
    ThreadFrames \cup { MkFrame(35, 0, 0, <<Point(84, 84), Far, Point(500, 30)>>, 18000, 0, 0) }
AlignedStreams ==
    { Concat(fs) : fs \in { x \in SeqsUpTo(AlignedFrames, MaxFrames) : x # << >> } }

(***************************************************************************)
(* Specifications                                                          *)
(***************************************************************************)
\* main() after its two calls of open_serial_connection, each of which
\* returned a connection or None
Init ==
    /\ script \in Scripts
    /\ input \in InitStreams \cup AlignedStreams
    /\ stream = input
    /\ pc = "start"
    /\ packet = << >>
    /\ frames = << >>
    /\ emptyRead = FALSE
    /\ obstacle = NoObstacle
    /\ action = "NONE"
    /\ error = "none"
    /\ sent = << >>
    /\ written = << >>
    /\ queue = << >>
    /\ maxsize = 0
    /\ roverPc = "idle"
    /\ taken = "NONE"
    /\ opened \in [Ports -> BOOLEAN]
    /\ closes = [c \in Ports |-> 0]
    /\ data = << >>
    /\ crc = 0
    /\ crcError = FALSE

Next ==
    \/ main
    \/ find_packet_start
    \/ ReadRest
    \/ check_for_obstacles
    \/ SendCommand
    \/ KeyboardInterrupt
    \/ SerialFault

Spec == Init /\ [][Next]_vars

\* main's own steps: the interpreter keeps running the loop while it can; a
\* Ctrl-C or a raising read is the environment's choice and is not forced
LoopStep ==
    \/ main
    \/ find_packet_start
    \/ ReadRest
    \/ check_for_obstacles
    \/ SendCommand

FairSpec == Spec /\ WF_vars(LoopStep)

\* the decoder on its own, on a packet of the set S
ParseInitOn(S) ==
    /\ script \in Scripts
    /\ input \in S
    /\ stream = << >>
    /\ pc = "check"
    /\ packet = input
    /\ frames = <<input>>
    /\ emptyRead = FALSE
    /\ obstacle = NoObstacle
    /\ action = "NONE"
    /\ error = "none"
    /\ sent = << >>
    /\ written = << >>
    /\ queue = << >>
    /\ maxsize = 0
    /\ roverPc = "idle"
    /\ taken = "NONE"
    /\ opened = [c \in Ports |-> TRUE]
    /\ closes = [c \in Ports |-> 0]
    /\ data = << >>
    /\ crc = 0
    /\ crcError = FALSE

\* the decoder on its own: read_packet has just returned a packet
ParseInit == ParseInitOn(ParsePackets)

ParseNext ==
    \/ check_for_obstacles
    \/ SendCommand

SpecParse == ParseInit /\ [][ParseNext]_vars

\* parse_lidar_packet as a function of any 22 bytes, whatever the first one
HeaderInit == ParseInitOn(HeaderPackets)

SpecHeader == HeaderInit /\ [][ParseNext]_vars

\* the two threads started on an empty action_queue of either kind
ThreadInit ==
    /\ script \in Scripts
    /\ input \in ThreadStreams
    /\ stream = input
    /\ pc = "find"
    /\ packet = << >>
    /\ frames = << >>
    /\ emptyRead = FALSE
    /\ obstacle = NoObstacle
    /\ action = "NONE"
    /\ error = "none"
    /\ sent = << >>
    /\ written = << >>
    /\ queue = << >>
    /\ maxsize \in 0..MaxQueue
    /\ roverPc = "poll"
    /\ taken = "NONE"
    /\ opened = [c \in Ports |-> TRUE]
    /\ closes = [c \in Ports |-> 0]
    /\ data = << >>
    /\ crc = 0
    /\ crcError = FALSE

ThreadNext ==
    \/ find_packet_start
    \/ ReadRest
    \/ LidarCheck
    \/ lidar_processing_thread
    \/ RoverPoll
    \/ RoverGet
    \/ rover_control_thread

SpecThreads == ThreadInit /\ [][ThreadNext]_vars

\* CalCRC8 called on its own (neither script calls it): crc = 0, then the loop
CrcInit ==
    /\ script \in Scripts
    /\ input \in CrcInputs
    /\ stream = << >>
    /\ pc = "crc"
    /\ packet = << >>
    /\ frames = << >>
    /\ emptyRead = FALSE
    /\ obstacle = NoObstacle
    /\ action = "NONE"
    /\ error = "none"
    /\ sent = << >>
    /\ written = << >>
    /\ queue = << >>
    /\ maxsize = 0
    /\ roverPc = "idle"
    /\ taken = "NONE"
    /\ opened = [c \in Ports |-> TRUE]
    /\ closes = [c \in Ports |-> 0]
    /\ data = input
    /\ crc = 0
    /\ crcError = FALSE

CrcNext == CalCRC8

SpecCRC == CrcInit /\ [][CrcNext]_vars

(***************************************************************************)
(* Claims                                                                  *)
(***************************************************************************)
\* parse_lidar_packet has run on packet: it returned (pc = "send") or an
\* exception escaped it (pc = "closed" with the decoder's exception)
Decoded == pc = "send" \/ (pc = "closed" /\ error = "ZeroDivisionError")
Returned == pc = "send"

\* the indices of the points the scan loop unpacks
Unpacked(p) == { i \in 0..(num_points(p) - 1) : PointFits(p, i) }

\* C1: for every frame whose point-count field is 0 or 1 the decoder yields
\* STOP and no division by zero happens, in the Basic and in the REV C script.
C1_DegenerateFrameStops ==
    (Decoded /\ Len(packet) = 1 + FRAME_REST /\ num_points(packet) <= 1)
        => (error = "none" /\ action = "STOP")

\* C1, the part the code keeps: the Basic script's guard turns every decodable
\* frame with a point count of 0 or 1 into STOP.
C1_BasicDegenerateFrameStops ==
    (Decoded /\ script = "Basic" /\ Len(packet) = 1 + FRAME_REST
        /\ num_points(packet) <= 1)
        => (error = "none" /\ action = "STOP")

\* C2: whatever frame read_packet returned, parse_lidar_packet returns one of
\* the five actions and no exception escapes it.
C2_DecodeErrorsBecomeStop ==
    Decoded => (error = "none" /\ pc = "send" /\ action \in Actions)

\* C2, the part the code keeps: the Basic script lets no exception escape.
C2_BasicDecodeErrorsBecomeStop ==
    (Decoded /\ script = "Basic") => (error = "none" /\ action \in Actions)

\* the source held N junk bytes followed by one 22-byte frame that starts with
\* the header byte
JunkLen(s) == Len(s) - (1 + FRAME_REST)
JunkThenFrame(s) == JunkLen(s) >= 0 /\ s[JunkLen(s) + 1] = HEADER
FrameOf(s) == SubSeq(s, JunkLen(s) + 1, Len(s))
JunkHasNoHeader(s) == \A i \in 1..JunkLen(s) : s[i] # HEADER
SourceDry == stream = << >> /\ pc = "find"

\* read_packet yields exactly one frame and it is the frame of the source
YieldsTheFrame ==
    /\ Len(frames) <= 1
    /\ frames # << >> => frames[1] = FrameOf(input)
    /\ SourceDry => Len(frames) = 1

\* C3 as stated: after N junk bytes of any value followed by a valid frame,
\* read_packet yields exactly one frame, byte for byte the valid frame.
C3_ResyncAfterAnyJunk == JunkThenFrame(input) => YieldsTheFrame

\* C3 amended: after N junk bytes none of which is 0x54, followed by a valid
\* frame, read_packet yields exactly one frame, byte for byte the valid frame.
C3_ResyncAfterJunkWithoutHeader ==
    (JunkThenFrame(input) /\ JunkHasNoHeader(input)) => YieldsTheFrame

\* C3 witness: junk was skipped and the one frame came out, the source now dry
C3_Witness ==
    /\ JunkThenFrame(input) /\ JunkHasNoHeader(input) /\ JunkLen(input) >= 2
    /\ SourceDry
    /\ frames = <<FrameOf(input)>>

\* C4: once read(1) has returned no byte during the header search, the frame
\* read has ended in failure: the reader is not still searching.
C4_EndOfStreamEndsSearch == emptyRead => pc # "find"

\* C5: every frame read_packet returns is 22 bytes long and begins with 0x54.
C5_FramesAreWhole ==
    \A i \in 1..Len(frames) :
        Len(frames[i]) = 1 + FRAME_REST /\ frames[i][1] = HEADER

\* C5, the part the code keeps: every packet returned begins with 0x54 and
\* holds at most 22 bytes.
C5_FramesStartWithHeader ==
    \A i \in 1..Len(frames) :
        Len(frames[i]) \in 1..(1 + FRAME_REST) /\ frames[i][1] = HEADER

\* the decoder reached its scan loop on p: the frame unpacked and (Basic) the
\* point count passed the guard, (REV C) the margin was computed
Scanned(s, p) ==
    IF s = "Basic" THEN ~StructError(p) /\ ~BasicDegenerate(p) ELSE RevCHasMargin(p)

\* d < margin, the margin being SAFETY_DISTANCE (Basic) or the dynamic one
BelowMargin(s, p, d) ==
    IF s = "Basic" THEN d < SAFETY_DISTANCE
    ELSE RatLt(RatInt(d), dynamic_safety_margin(p))

AdjustedAngle(s, p, i) ==
    IF s = "Basic" THEN BasicAdjustedAngle(p, i) ELSE RevCAdjustedAngle(p, i)

\* the unpacked points with 0 < distance < margin, and the least such distance
Candidates(s, p) ==
    { i \in Unpacked(p) : 0 < distance(p, i) /\ BelowMargin(s, p, distance(p, i)) }
Nearest(s, p) ==
    CHOOSE d \in { distance(p, i) : i \in Candidates(s, p) } :
        \A j \in Candidates(s, p) : d <= distance(p, j)

\* C6: the obstacle handed to the classifier is the point of minimum distance
\* among the unpacked points with 0 < distance < margin: its distance, its
\* angle and (REV C) its intensity.
C6_ObstacleIsNearestPoint ==
    (Returned /\ Len(packet) = 1 + FRAME_REST /\ Scanned(script, packet)
        /\ Candidates(script, packet) # {})
        => \E i \in Candidates(script, packet) :
              /\ distance(packet, i) = Nearest(script, packet)
              /\ obstacle.distance = distance(packet, i)
              /\ obstacle.angle = AdjustedAngle(script, packet, i)
              /\ script = "RevC" => obstacle.intensity = intensity(packet, i)

\* C6, the part the code keeps: in the Basic script the obstacle is the
\* nearest point below the margin.
C6_BasicObstacleIsNearestPoint ==
    script = "Basic" => C6_ObstacleIsNearestPoint

\* a scan: a whole 22-byte frame with a point count of 2 or more
IsScan(p) == Len(p) = 1 + FRAME_REST /\ num_points(p) >= 2

\* every unpacked point is at distance 0 or at or beyond the margin; where the
\* REV C margin does not exist (its computation raises) only distance 0 counts
PathClear(s, p) ==
    \A i \in Unpacked(p) :
        \/ distance(p, i) = 0
        \/ Scanned(s, p) /\ ~BelowMargin(s, p, distance(p, i))

\* C7: for a scan in which every point is at distance 0 or at or beyond the
\* margin, the decision is FORWARD.
C7_ClearPathForward ==
    (Decoded /\ IsScan(packet) /\ PathClear(script, packet))
        => (error = "none" /\ action = "FORWARD")

\* C7, the part the code keeps: whenever the decoder reaches its scan loop and
\* no point is below the margin, the decision is FORWARD.
C7_ClearPathForwardWhenScanned ==
    (Decoded /\ Scanned(script, packet) /\ PathClear(script, packet))
        => (error = "none" /\ action = "FORWARD")

\* C8: Basic script, obstacle detected at rover-frame angle a in [0, 360):
\* TURN_RIGHT for a in [45, 135], TURN_LEFT for a in [225, 315], REVERSE for
\* every other a.
C8_QuadrantProfile ==
    (Returned /\ script = "Basic" /\ obstacle.distance < SAFETY_DISTANCE)
        => LET a == obstacle.angle
           IN  /\ 0 <= a.num /\ a.num < 360 * a.den
               /\ action = IF 45 * a.den <= a.num /\ a.num <= 135 * a.den
                              THEN "TURN_RIGHT"
                           ELSE IF 225 * a.den <= a.num /\ a.num <= 315 * a.den
                              THEN "TURN_LEFT"
                           ELSE "REVERSE"

\* C8 witness: an obstacle exactly on the boundary a = 135 turned the rover right
C8_Witness ==
    /\ Returned /\ script = "Basic" /\ obstacle.distance < SAFETY_DISTANCE
    /\ obstacle.angle = RatInt(135)
    /\ action = "TURN_RIGHT"

\* C9: REV C script, obstacle detected: a turn (TURN_LEFT for an angle within
\* 9000..27000 centidegrees, TURN_RIGHT otherwise) when its intensity exceeds
\* 20, STOP when its intensity is 20 or less.
C9_IntensityGatedProfile ==
    (Returned /\ script = "RevC" /\ obstacle.distance # INF)
        => LET a == obstacle.angle
           IN  action = IF obstacle.intensity <= 20 THEN "STOP"
                        ELSE IF 9000 * a.den <= a.num /\ a.num <= 27000 * a.den
                           THEN "TURN_LEFT"
                        ELSE "TURN_RIGHT"

\* C9 witness: an obstacle read at intensity exactly 20 stopped the rover
C9_Witness ==
    /\ Returned /\ script = "RevC" /\ obstacle.distance # INF
    /\ obstacle.intensity = 20
    /\ action = "STOP"

\* speeds and angular resolutions the margin is compared over
TestSpeeds == {0, 1000, 3000, 65535}
TestResolutions ==
    { Rat(d, m) : d \in {-18000, -100, 100, 7, 18000}, m \in {1, 2, 11, 30} }

\* C10: the dynamic safety margin does not decrease when scan_speed grows at a
\* fixed angular resolution, nor when the angular resolution coarsens (a
\* larger angle per point) at a fixed scan_speed.
C10_MarginMonotone ==
    (Returned /\ script = "RevC" /\ RevCHasMargin(packet))
        => LET res == angular_resolution(packet)
               spd == speed(packet)
               m == calculate_dynamic_safety_margin(spd, res)
           IN  /\ \A s2 \in TestSpeeds :
                     spd <= s2 => RatLe(m, calculate_dynamic_safety_margin(s2, res))
               /\ \A r2 \in TestResolutions :
                     RatLe(res, r2) => RatLe(m, calculate_dynamic_safety_margin(spd, r2))

\* C10, the part the code keeps: at a fixed positive angular resolution the
\* margin does not decrease when scan_speed grows.
C10_MarginMonotoneInSpeed ==
    (Returned /\ script = "RevC" /\ RevCHasMargin(packet)
        /\ angular_resolution(packet).num > 0)
        => \A s2 \in TestSpeeds :
              speed(packet) <= s2
                 => RatLe(dynamic_safety_margin(packet),
                          calculate_dynamic_safety_margin(s2, angular_resolution(packet)))

(***************************************************************************)
(* Claims on the two threads and their queue                               *)
(***************************************************************************)
\* the step in which rover_control_thread takes an action from the queue
Takes == roverPc = "get" /\ roverPc' = "write"

\* C11: the control loop takes the latest value: it gets the action published
\* last, and the actions published before it are dropped, never to be sent;
\* so a take with nothing published since the last take finds nothing.
C11_TakeYieldsLatest ==
    [][ Takes => /\ taken' = queue[Len(queue)]
                 /\ queue' = << >> ]_vars

\* what the code keeps: the actions are sent in the order they were published
\* and none is dropped (sent, then taken, then queue is what was published)
Pending == (IF roverPc = "write" THEN <<taken>> ELSE << >>) \o queue
Published == sent \o Pending
C11_TakeYieldsOldest ==
    [][ Takes => /\ taken' = Head(queue)
                 /\ Published' = Published ]_vars

\* lidar_processing_thread stands at action_queue.put(action) and waits
PutBlocked == pc = "put" /\ Full(queue, maxsize)

\* C12: publishing an action never blocks the sensing loop: on a full queue
\* the oldest pending action makes room, so the sensing loop is never held at
\* its put and the pending actions never exceed the queue's bound.
C12_PublishNeverBlocks ==
    /\ ~PutBlocked
    /\ maxsize > 0 => Len(queue) <= maxsize

\* what the code keeps: a bounded queue never holds more than maxsize
\* actions, because the put waits; nothing is ever dropped
C12_PendingWithinMaxsize == maxsize > 0 => Len(queue) <= maxsize
C12_NothingDropped ==
    [][ pc = "put" /\ pc' = "find" => Published' = Append(Published, action) ]_vars

(***************************************************************************)
(* Claims on main's connections                                            *)
(***************************************************************************)
\* main has returned: by the early return or past the finally
MainReturned == pc \in {"exit", "closed"}

\* C13: on every exit path of main (the early return when a port failed to
\* open, KeyboardInterrupt, any other exception) every connection that was
\* opened has been closed exactly once by the time main returns.
C13_OpenedConnectionsClosedOnce ==
    MainReturned => \A c \in Ports : opened[c] => closes[c] = 1

\* what the code keeps: past the try statement's finally both are closed
\* exactly once, and a port that did not open is never closed
C13_ClosedOnceAfterFinally ==
    /\ pc = "closed" => \A c \in Ports : opened[c] /\ closes[c] = 1
    /\ \A c \in Ports : closes[c] <= 1 /\ (~opened[c] => closes[c] = 0)

\* the sensor source has ended for good while main is in its loop: nothing
\* is left to read and every later read() returns b''
SourceEnded == stream = << >> /\ pc \in {"find", "rest", "check", "send"}

\* main is past its finally with both connections closed
ShutDown == pc = "closed" /\ \A c \in Ports : closes[c] = 1

\* C14: if the sensor source has ended for good, the main loop eventually
\* leaves and both connections end up closed.
C14_StreamLossShutsDown == SourceEnded ~> ShutDown

\* what the code keeps: a read that raises ends the loop through the finally
C14_RaisingReadShutsDown ==
    [][ (error' = "SerialException" /\ error # "SerialException") => ShutDown' ]_vars

(***************************************************************************)
(* Claims on CalCRC8                                                       *)
(***************************************************************************)
\* C15: CalCRC8 is total: seeded at 0, every index (crc XOR byte) & 0xFF it
\* looks up lies in 0..255 and has an entry in the 256-entry table, so the
\* function never fails on an index out of range and its crc is a byte.
C15_CalCRC8Total ==
    /\ ~crcError
    /\ crc \in 0..255

\* what the code keeps: the index is masked to 0..255 and the crc is a byte;
\* the lookup fails exactly on the indices past the table's 192 entries
C15_IndexAndCrcAreBytes ==
    /\ crc \in 0..255
    /\ data # << >> => CrcIndex(crc, Head(data)) \in 0..255
    /\ \A i \in 0..255 : IndexError(i) <=> i >= 192

(***************************************************************************)
(* Claims on the commands                                                  *)
(***************************************************************************)
\* the canonical command records
Canonical ==
    [a \in Actions |->
        CASE a = "FORWARD"    -> [T |-> 1, L |-> 100, R |-> 100]
          [] a = "REVERSE"    -> [T |-> 1, L |-> -125, R |-> -125]
          [] a = "TURN_LEFT"  -> [T |-> 1, L |-> -255, R |-> 255]
          [] a = "TURN_RIGHT" -> [T |-> 1, L |-> 255, R |-> -255]
          [] a = "STOP"       -> [T |-> 0]]

\* C16: each action maps to its canonical command record, and the command
\* written to the rover for an action is always the record of that action.
C16_CanonicalCommandWritten ==
    /\ Len(written) = Len(sent)
    /\ \A k \in 1..Len(sent) : written[k] = Canonical[sent[k]]

\* what the code keeps: the command written is the record COMMANDS holds for
\* the action, and the Basic script's records list the canonical values
C16_CommandOfActionWritten ==
    /\ Len(written) = Len(sent)
    /\ \A k \in 1..Len(sent) : written[k] = COMMANDS(script, sent[k])
    /\ COMMANDS_Basic = Canonical

(***************************************************************************)
(* Claims on the decoder's margin, angles, ties and header                 *)
(***************************************************************************)
\* REV C has decoded a whole frame of two points or more with its margin
RevCMarginUsed ==
    /\ Returned /\ script = "RevC"
    /\ Len(packet) = 1 + FRAME_REST
    /\ num_points(packet) >= 2
    /\ RevCHasMargin(packet)

\* C17: the dynamic safety margin only widens the threshold: for every frame
\* REV C decodes, end_angle < start_angle included, the margin used for
\* detection is at least the base distance of 950 mm.
C17_MarginAtLeastBase ==
    RevCMarginUsed
        => RatLe(RatInt(BASE_SAFETY_DISTANCE), dynamic_safety_margin(packet))

\* what the code keeps: the margin is at least the base distance when
\* end_angle > start_angle
C17_MarginAtLeastBaseWhenAscending ==
    (RevCMarginUsed /\ end_angle(packet) > start_angle(packet))
        => RatLe(RatInt(BASE_SAFETY_DISTANCE), dynamic_safety_margin(packet))

\* the rover-frame angle of point i in centidegrees, the unit of start_angle:
\* start_angle + i * (end_angle - start_angle) / (point_count - 1), plus the
\* mounting offset of 90 degrees, modulo the full turn of 36000
CentiAngle(p, i) ==
    RatMod(RatAdd(RatAdd(RatInt(start_angle(p)),
                         RatMul(RatInt(i), angular_resolution(p))),
                  RatInt(9000)),
           36000)

\* the quadrant thresholds of the Basic script taken in centidegrees
CentiQuadrant(a) ==
    IF 4500 * a.den <= a.num /\ a.num <= 13500 * a.den THEN "TURN_RIGHT"
    ELSE IF 22500 * a.den <= a.num /\ a.num <= 31500 * a.den THEN "TURN_LEFT"
    ELSE "REVERSE"

\* an obstacle of a whole frame of two points or more went to the classifier
Classified ==
    /\ Returned /\ IsScan(packet)
    /\ Detected(script, packet) /\ obstacle.index >= 0

\* C18: one unit system end to end: the rover-frame angle used for the
\* classification of point i is start_angle + i*(end_angle - start_angle) /
\* (point_count - 1) plus the mounting offset, modulo 36000 centidegrees, and
\* the thresholds it is compared with are in centidegrees too.
C18_OneUnitSystem ==
    Classified
        => /\ obstacle.angle = CentiAngle(packet, obstacle.index)
           /\ script = "Basic" => action = CentiQuadrant(obstacle.angle)

\* what the code keeps: REV C reduces modulo 36000 and compares with 9000 and
\* 27000, all in centidegrees
C18_RevCOneUnitSystem ==
    (Classified /\ script = "RevC")
        => obstacle.angle = CentiAngle(packet, obstacle.index)

\* the points below the margin at the minimum distance, and the lowest index
\* among them
Tied(s, p) == { i \in Candidates(s, p) : distance(p, i) = Nearest(s, p) }
LowestTied(s, p) == CHOOSE i \in Tied(s, p) : \A j \in Tied(s, p) : i <= j

\* the classification of point i: the turn or reverse of its angle
ClassOf(s, p, i) ==
    IF s = "Basic" THEN QuadrantDecision(BasicAdjustedAngle(p, i))
    ELSE make_dynamic_decision(intensity(p, i), RevCAdjustedAngle(p, i))

\* a whole frame was decoded in which two points or more share the minimum
\* distance below the margin
TieDecoded ==
    /\ Returned /\ IsScan(packet) /\ Scanned(script, packet)
    /\ Cardinality(Tied(script, packet)) >= 2

\* C19: when several points share the minimum distance below the margin, the
\* obstacle is taken at the lowest point index (for the points (500,30),
\* (2000,30), (500,30): 500 mm at index 0) and the action is the turn or
\* reverse of that index's angle.
C19_TieTakesLowestIndex ==
    TieDecoded
        => /\ obstacle.distance = Nearest(script, packet)
           /\ obstacle.index = LowestTied(script, packet)
           /\ action = ClassOf(script, packet, LowestTied(script, packet))

\* what the code keeps: the Basic script's "<" keeps the first of the tied
\* points
C19_BasicTieTakesLowestIndex ==
    (TieDecoded /\ script = "Basic")
        => /\ obstacle.distance = Nearest(script, packet)
           /\ obstacle.index = LowestTied(script, packet)
           /\ action = ClassOf(script, packet, LowestTied(script, packet))

\* C20: the decoder checks the header: parse_lidar_packet yields STOP for
\* every frame whose first byte is not 0x54, whatever the rest of the frame.
C20_BadHeaderRejected ==
    (Decoded /\ ~IsHeader(packet[1])) => (pc = "send" /\ action = "STOP")

\* what the code does: the first byte is unpacked and never looked at, the
\* result is that of the same frame under the header 0x54
C20_HeaderIgnored ==
    parse_lidar_packet(script, packet)
        = parse_lidar_packet(script, <<HEADER>> \o Tail(packet))

(***************************************************************************)
(* Claims on what the decoder reads of a frame                             *)
(***************************************************************************)
\* the packet with the two bytes between the third point and the trailer
\* of a 22-byte frame replaced
WithLeftover(p, b) == SubSeq(p, 1, 15) \o b \o SubSeq(p, 18, Len(p))

WithStamp(p, ts, c) == SubSeq(p, 1, 19) \o <<Lo(ts), Hi(ts), c>>
TestStamps == {0, 1, 18000, 65535}
TestCrcs == {0, 192, 255}

\* C22: checksum and timestamp do not bear on the decision: two 22-byte
\* frames that differ only in the timestamp and crc bytes get the same action
\* (or the same failure) from parse_lidar_packet, and CalCRC8 is not run on
\* the read-decode-decide path.
C22_StampAndCrcIgnored ==
    /\ (Decoded /\ Len(packet) = 1 + FRAME_REST)
          => \A ts \in TestStamps, c \in TestCrcs :
                /\ parse_lidar_packet(script, WithStamp(packet, ts, c))
                      = parse_lidar_packet(script, packet)
                /\ Returned
                      => action = parse_lidar_packet(script, WithStamp(packet, ts, c))
    /\ data = << >> /\ crc = 0 /\ ~crcError

\* C22 witness: a frame with timestamp and crc set was decoded to a turn, the
\* action of the same frame with both zeroed
C22_Witness ==
    /\ Returned /\ Len(packet) = 1 + FRAME_REST
    /\ SubSeq(packet, 20, 22) \in {<<1, 0, 192>>, <<255, 255, 255>>}
    /\ action \in {"TURN_LEFT", "TURN_RIGHT"}
    /\ action = parse_lidar_packet(script, WithStamp(packet, 0, 0))

(***************************************************************************)
(* Claims on main's loop over several frames                               *)
(***************************************************************************)
\* the source holds whole frames on end, and main's loop was not cut off
\* from outside (Ctrl-C, a raising read)
NotCutOff ==
    /\ input \in AlignedStreams
    /\ error \notin {"KeyboardInterrupt", "SerialException"}

\* how many of the frames read main's loop is through with: all of them, but
\* for the one being decoded or awaiting its command
FramesDone == IF pc \in {"check", "send"} THEN Len(frames) - 1 ELSE Len(frames)

\* C23: in the main loop every frame read produces exactly one command
\* written to the rover, ahead of the next read: the commands sent are the
\* decisions of the frames read, in order, none skipped, none doubled.
C23_OneCommandPerFrame ==
    NotCutOff
        => /\ Len(sent) = FramesDone
           /\ Len(written) = FramesDone
           /\ \A k \in 1..FramesDone :
                 /\ sent[k] = parse_lidar_packet(script, frames[k])
                 /\ written[k] = COMMANDS(script, sent[k])

\* what the code keeps: the same, as long as no decode has raised; the Basic
\* script's decoder never raises
C23_OneCommandPerFrameDecoded ==
    /\ (NotCutOff /\ error = "none")
          => /\ Len(sent) = FramesDone
             /\ \A k \in 1..FramesDone :
                   /\ sent[k] = parse_lidar_packet(script, frames[k])
                   /\ written[k] = COMMANDS(script, sent[k])
    /\ (NotCutOff /\ script = "Basic") => error = "none"

\* the k-th frame of a source of whole frames, and the bytes read so far
FrameAt(s, k) == SubSeq(s, (1 + FRAME_REST) * (k - 1) + 1, (1 + FRAME_REST) * k)
Consumed == Len(input) - Len(stream)

\* C24: once aligned the reader stays aligned: on a source that is k whole
\* 22-byte frames on end, each starting with 0x54, the successive read_packet
\* calls return those frames, in order and unchanged, each call consuming 22
\* bytes, also when payload bytes equal 0x54.
C24_StaysAligned ==
    input \in AlignedStreams
        => /\ \A k \in 1..Len(frames) : frames[k] = FrameAt(input, k)
           /\ Consumed = (1 + FRAME_REST) * Len(frames)
                            + (IF Len(packet) = 1 THEN 1 ELSE 0)
           /\ SourceDry => (1 + FRAME_REST) * Len(frames) = Len(input)

\* C24 witness: three frames came out of a source of three, the second with
\* 0x54 among its payload bytes, and the source is dry
C24_Witness ==
    /\ input \in AlignedStreams /\ SourceDry
    /\ Len(frames) = MaxFrames
    /\ frames[2][7] = HEADER
    /\ frames[1] # frames[2]
    /\ \A k \in 1..MaxFrames : frames[k] = FrameAt(input, k)

(***************************************************************************)
(* Claims on the control loop's get                                        *)
(***************************************************************************)
\* C25: with one producer and one consumer the control loop calls get() only
\* after it saw the queue non-empty, and nothing but its own get() removes
\* items: under every interleaving the get finds an item and never waits.
C25_GetNeverBlocks ==
    /\ roverPc = "get" => queue # << >>
    /\ roverPc = "write" => taken \in Actions

\* C25, the step form: the queue loses an item only in the control loop's take
C25_OnlyTakeRemoves ==
    [][ Len(queue') < Len(queue) => Takes ]_vars

\* C25 witness: the control loop stands at its get while the sensing loop
\* has put a second action since the poll
C25_Witness ==
    /\ roverPc = "get"
    /\ Len(queue) = 2
    /\ pc = "find"

====
